---- MODULE Spec2Model ----
(***************************************************************************)
(* Lock-level model of the counting semaphore of src/lib.rs:               *)
(*   Semaphore { lock: Mutex<usize>, cvar: Condvar } and SemaphoreGuard.   *)
(* Every thread is a caller that repeatedly invokes one of the public      *)
(* operations. An operation is split where its thread can be preempted     *)
(* with an effect the others can see: when it obtains the Mutex, at the    *)
(* end of the critical section, while it is suspended in Condvar::wait or  *)
(* wait_timeout, and when it re-locks the Mutex after a wake.              *)
(***************************************************************************)
EXTENDS Integers, FiniteSets

\* ---------------------------------------------------------------- bounds
NThreads == 3        \* number of threads
W == 3               \* modelled width of usize, in bits
MaxHeld == 2         \* permits one thread takes before it releases one
MaxExtra == 1        \* unbalanced release() calls in one run
MaxInit == 2         \* largest small capacity given to Semaphore::new

Threads == 1..NThreads
\* The threads that make calls in the general specifications; the last
\* thread makes calls only where three threads share the wait set
\* (SpecShared).
Callers == 1..(NThreads - 1)
NoThread == 0
MaxValue == 2^W - 1  \* usize::MAX

VARIABLES
    count,            \* the usize inside the Mutex
    locked,           \* thread owning the Mutex, NoThread when it is free
    poisoned,         \* the Mutex's poison flag
    pc,               \* pc[t]: where thread t stands
    ret,              \* ret[t]: what t's last completed call returned
    got,              \* got[t]: the number get_value() returned to t
    budget,           \* budget[t]: positive while t's acquire_timeout window is open
    dur,              \* history: 1 when t's last acquire_timeout window was positive
    op,               \* op[t]: the operation t called last
    unwinding,        \* unwinding[t]: t's scope is exiting by a panic
    initial,          \* history: the argument Semaphore::new was given
    held,             \* history: held[t] permits taken and not yet released
    guards,           \* history: guards[t] live SemaphoreGuards of t
    extra             \* history: release() calls made with no permit held

vars == <<count, locked, poisoned, pc, op, ret, got, budget, dur,
          unwinding, initial, held, guards, extra>>

sem == <<count, locked, poisoned>>
hist == <<initial, held, guards, extra>>

\* Threads suspended on the Condvar (inside wait or wait_timeout).
Waiting == {t \in Threads : pc[t] \in {"acq_wait", "to_wait"}}

\* Positions inside acquire_timeout.
TimeoutPcs == {"to_enter", "to_wait", "to_woken", "to_check"}

\* Positions inside acquire.
AcquirePcs == {"acq_check", "acq_wait", "acq_woken", "acq_recheck"}

RECURSIVE SumOver(_, _)
SumOver(f, S) ==
    IF S = {} THEN 0
    ELSE LET x == CHOOSE y \in S : TRUE IN f[x] + SumOver(f, S \ {x})

\* The call in progress was made by SemaphoreGuard::acquire or by its drop.
ViaGuard(t) == op[t] \in {"guard_acquire", "guard_drop"}

\* Number of permits currently held by threads.
Holders == SumOver(held, Threads)
LiveGuards == SumOver(guards, Threads)

\* ------------------------------------------------------------ construction
\* The arguments given to Semaphore::new: the small capacities, and the
\* largest value of usize.
Capacities == (0..MaxInit) \cup {MaxValue}

\* Semaphore::new(count): the counter is the argument, the Mutex is free and
\* not poisoned, nobody waits on the Condvar.
New(n) ==
    /\ count = n
    /\ locked = NoThread
    /\ poisoned = FALSE
    /\ initial = n

Init ==
    /\ \E n \in Capacities : New(n)
    /\ pc = [t \in Threads |-> "idle"]
    /\ ret = [t \in Threads |-> "none"]
    /\ got = [t \in Threads |-> 0]
    /\ budget = [t \in Threads |-> 0]
    /\ dur = [t \in Threads |-> 0]
    /\ op = [t \in Threads |-> "none"]
    /\ unwinding = [t \in Threads |-> FALSE]
    /\ held = [t \in Threads |-> 0]
    /\ guards = [t \in Threads |-> 0]
    /\ extra = 0

\* ------------------------------------------------------------ Mutex, panic
\* Where a call that has finished leaves the thread: back in its scope, or,
\* when the scope is unwinding, on to the next guard to drop or to the end
\* of the thread.
AfterCall(t, g) ==
    IF unwinding[t] THEN (IF g > 0 THEN "unwind" ELSE "panicked") ELSE "idle"

\* A caller enters operation o, whose first statement is
\* self.lock.lock().unwrap(): lock() blocks while the Mutex is owned; on a
\* free Mutex the thread owns it and stands at `next`; on a poisoned Mutex
\* unwrap() panics and the thread ends.
Enter(t, o, next) ==
    /\ pc[t] \in {"idle", "unwind"}
    /\ locked = NoThread
    /\ IF poisoned
       THEN /\ pc' = [pc EXCEPT ![t] = "panicked"]
            /\ locked' = locked
       ELSE /\ pc' = [pc EXCEPT ![t] = next]
            /\ locked' = t
    /\ op' = [op EXCEPT ![t] = o]
    /\ ret' = [ret EXCEPT ![t] = "none"]
    /\ got' = [got EXCEPT ![t] = 0]
    /\ UNCHANGED <<count, poisoned, unwinding, hist>>

\* cvar.wait(..).unwrap() re-locks the Mutex after a wake: the thread owns
\* it again and stands at `next`; when the Mutex was poisoned meanwhile,
\* unwrap() panics and the thread ends.
LockUnwrap(t, at, next) ==
    /\ pc[t] = at
    /\ locked = NoThread
    /\ IF poisoned
       THEN /\ pc' = [pc EXCEPT ![t] = "panicked"]
            /\ locked' = locked
       ELSE /\ pc' = [pc EXCEPT ![t] = next]
            /\ locked' = t
    /\ UNCHANGED <<count, poisoned, op, ret, got, budget, dur, unwinding, hist>>

\* A suspended thread leaves the wait set and goes on to re-lock the Mutex.
Woken(p, w) ==
    [p EXCEPT ![w] = IF p[w] = "acq_wait" THEN "acq_woken" ELSE "to_woken"]

\* --------------------------------------------------------------- acquire
\* Semaphore::acquire is called (line 27) and line 28 obtains the Mutex.
AcquireCall(t) ==
    /\ pc[t] = "idle"
    /\ held[t] < MaxHeld
    /\ Enter(t, "acquire", "acq_check")
    /\ budget' = budget
    /\ dur' = [dur EXCEPT ![t] = 0]

\* lines 29-33, with the Mutex owned: the loop test; on 0 the thread enters
\* cvar.wait, which gives the Mutex up and suspends; otherwise it decrements,
\* the MutexGuard is dropped and acquire returns.
AcquireTest(t, at) ==
    /\ pc[t] = at
    /\ locked = t
    /\ IF count = 0
       THEN /\ pc' = [pc EXCEPT ![t] = "acq_wait"]
            /\ UNCHANGED <<count, ret, held, guards>>
       ELSE /\ count' = count - 1
            /\ pc' = [pc EXCEPT ![t] = "idle"]
            /\ ret' = [ret EXCEPT ![t] = "unit"]
            /\ held' = [held EXCEPT ![t] = @ + 1]
            /\ guards' = [guards EXCEPT ![t] = @ + (IF ViaGuard(t) THEN 1 ELSE 0)]
    /\ locked' = NoThread
    /\ UNCHANGED <<poisoned, op, got, budget, dur, unwinding, initial, extra>>

\* A reentrant acquire: a thread that already holds a permit returns at once.
AcquireCheckReentrant(t) ==
    IF held[t] > 0
    THEN /\ pc[t] = "acq_check"
         /\ locked = t
         /\ pc' = [pc EXCEPT ![t] = "idle"]
         /\ ret' = [ret EXCEPT ![t] = "unit"]
         /\ locked' = NoThread
         /\ UNCHANGED <<count, poisoned, op, got, budget, dur, unwinding, hist>>
    ELSE AcquireTest(t, "acq_check")

\* The first evaluation of `while *count == 0` (line 29), right after line 28.
AcquireCheck(t) == AcquireTest(t, "acq_check")

\* line 30: cvar.wait re-locks the Mutex after a wake.
AcquireRelock(t) == LockUnwrap(t, "acq_woken", "acq_recheck")

\* A variant that decrements after a wake without testing the counter again
\* (`if` in place of `while`).
AcquireRecheckBlind(t) ==
    /\ pc[t] = "acq_recheck"
    /\ locked = t
    /\ count' = count - 1
    /\ pc' = [pc EXCEPT ![t] = "idle"]
    /\ ret' = [ret EXCEPT ![t] = "unit"]
    /\ held' = [held EXCEPT ![t] = @ + 1]
    /\ guards' = [guards EXCEPT ![t] = @ + (IF ViaGuard(t) THEN 1 ELSE 0)]
    /\ locked' = NoThread
    /\ UNCHANGED <<poisoned, op, got, budget, dur, unwinding, initial, extra>>

\* The evaluation of `while *count == 0` after cvar.wait returned (the loop
\* of lines 29-31 going round).
AcquireRecheck(t) == AcquireTest(t, "acq_recheck")

\* ------------------------------------------------------- acquire_timeout
\* A window whose deadline (now + dur) is beyond what the clock can
\* represent, such as Duration::MAX: cvar.wait_timeout then waits with no
\* timeout at all, and only a notification or a spurious wake ends the wait.
NoDeadline == 2

\* The windows a caller asks for: Duration::ZERO (0), a positive Duration
\* with a deadline (1), or one without (NoDeadline). wait_timeout depends on
\* the Duration only through whether its deadline has passed, so a positive
\* window is open (budget 1) until the clock reaches the deadline (budget 0),
\* and a window without deadline stays open.
Durations == {0, 1, NoDeadline}

\* Semaphore::acquire_timeout(dur) is called (line 37) and line 38 obtains
\* the Mutex.
TimeoutCall(t, d) ==
    /\ pc[t] = "idle"
    /\ held[t] < MaxHeld
    /\ Enter(t, "acquire_timeout", "to_enter")
    /\ budget' = [budget EXCEPT ![t] = IF poisoned THEN 0 ELSE d]
    /\ dur' = [dur EXCEPT ![t] = IF d = 0 THEN 0 ELSE 1]

\* line 39: cvar.wait_timeout(count, dur) is entered whatever the counter
\* is: the Mutex is given up and the thread suspends.
TimeoutEnter(t) ==
    /\ pc[t] = "to_enter"
    /\ locked = t
    /\ pc' = [pc EXCEPT ![t] = "to_wait"]
    /\ locked' = NoThread
    /\ UNCHANGED <<count, poisoned, op, ret, got, budget, dur, unwinding, hist>>

\* The clock reaches the deadline while the thread is inside wait_timeout;
\* a window without deadline is never reached.
TimeoutTick(t) ==
    /\ pc[t] \in {"to_wait", "to_woken"}
    /\ budget[t] > 0
    /\ budget[t] # NoDeadline
    /\ budget' = [budget EXCEPT ![t] = @ - 1]
    /\ dur' = dur
    /\ UNCHANGED <<sem, pc, op, ret, got, unwinding, hist>>

\* A wait that no clock ends (cvar.wait in place of cvar.wait_timeout).
TimeoutExpireNever(t) ==
    /\ pc[t] = "to_wait"
    /\ budget[t] < 0
    /\ pc' = [pc EXCEPT ![t] = "to_woken"]
    /\ UNCHANGED <<sem, op, ret, got, budget, dur, unwinding, hist>>

\* The window has elapsed: wait_timeout stops waiting.
TimeoutExpire(t) ==
    /\ pc[t] = "to_wait"
    /\ budget[t] = 0
    /\ pc' = [pc EXCEPT ![t] = "to_woken"]
    /\ UNCHANGED <<sem, op, ret, got, budget, dur, unwinding, hist>>

\* line 39, leaving wait_timeout: the Mutex is re-locked; on a poisoned Mutex
\* wait_timeout returns Err and line 49 makes the call return false.
TimeoutRelock(t) ==
    /\ pc[t] = "to_woken"
    /\ locked = NoThread
    /\ IF poisoned
       THEN /\ pc' = [pc EXCEPT ![t] = "idle"]
            /\ ret' = [ret EXCEPT ![t] = "false"]
            /\ budget' = [budget EXCEPT ![t] = 0]
            /\ locked' = locked
       ELSE /\ pc' = [pc EXCEPT ![t] = "to_check"]
            /\ locked' = t
            /\ UNCHANGED <<ret, budget>>
    /\ UNCHANGED <<count, poisoned, op, got, dur, unwinding, hist>>

\* An acquire_timeout that decrements after the wait whatever the counter is.
TimeoutCheckUngated(t) ==
    /\ pc[t] = "to_check"
    /\ locked = t
    /\ count' = count - 1
    /\ ret' = [ret EXCEPT ![t] = "true"]
    /\ held' = [held EXCEPT ![t] = @ + 1]
    /\ pc' = [pc EXCEPT ![t] = "idle"]
    /\ budget' = [budget EXCEPT ![t] = 0]
    /\ dur' = dur
    /\ locked' = NoThread
    /\ UNCHANGED <<poisoned, op, got, unwinding, initial, guards, extra>>

\* lines 40-47, with the Mutex owned: one test of the counter, whatever
\* ended the wait and whatever is left of the window.
TimeoutCheck(t) ==
    /\ pc[t] = "to_check"
    /\ locked = t
    /\ IF count > 0
       THEN /\ count' = count - 1
            /\ ret' = [ret EXCEPT ![t] = "true"]
            /\ held' = [held EXCEPT ![t] = @ + 1]
       ELSE /\ ret' = [ret EXCEPT ![t] = "false"]
            /\ UNCHANGED <<count, held>>
    /\ pc' = [pc EXCEPT ![t] = "idle"]
    /\ budget' = [budget EXCEPT ![t] = 0]
    /\ dur' = dur
    /\ locked' = NoThread
    /\ UNCHANGED <<poisoned, op, got, unwinding, initial, guards, extra>>

\* ----------------------------------------------------------- try_acquire
\* Semaphore::try_acquire is called (line 55) and line 56 obtains the Mutex.
TryCall(t) ==
    /\ pc[t] = "idle"
    /\ held[t] < MaxHeld
    /\ Enter(t, "try_acquire", "try_check")
    /\ budget' = budget
    /\ dur' = [dur EXCEPT ![t] = 0]

\* A try_acquire whose test lets a counter of 0 through (`>=` for `>`).
TryCheckUngated(t) ==
    /\ pc[t] = "try_check"
    /\ locked = t
    /\ IF count >= 0
       THEN /\ count' = count - 1
            /\ ret' = [ret EXCEPT ![t] = "true"]
            /\ held' = [held EXCEPT ![t] = @ + 1]
       ELSE /\ ret' = [ret EXCEPT ![t] = "false"]
            /\ UNCHANGED <<count, held>>
    /\ pc' = [pc EXCEPT ![t] = "idle"]
    /\ locked' = NoThread
    /\ UNCHANGED <<poisoned, op, got, budget, dur, unwinding, initial, guards, extra>>

\* A try_acquire that reports success without taking the permit.
TryCheckNoDecrement(t) ==
    /\ pc[t] = "try_check"
    /\ locked = t
    /\ ret' = [ret EXCEPT ![t] = IF count > 0 THEN "true" ELSE "false"]
    /\ held' = [held EXCEPT ![t] = IF count > 0 THEN @ + 1 ELSE @]
    /\ pc' = [pc EXCEPT ![t] = "idle"]
    /\ locked' = NoThread
    /\ UNCHANGED <<count, poisoned, op, got, budget, dur, unwinding, initial,
                   guards, extra>>

\* A try_acquire that suspends on the Condvar when it finds the counter at 0.
TryCheckSuspends(t) ==
    /\ pc[t] = "try_check"
    /\ locked = t
    /\ IF count > 0
       THEN /\ count' = count - 1
            /\ ret' = [ret EXCEPT ![t] = "true"]
            /\ held' = [held EXCEPT ![t] = @ + 1]
            /\ pc' = [pc EXCEPT ![t] = "idle"]
       ELSE /\ pc' = [pc EXCEPT ![t] = "acq_wait"]
            /\ UNCHANGED <<count, ret, held>>
    /\ locked' = NoThread
    /\ UNCHANGED <<poisoned, op, got, budget, dur, unwinding, initial, guards, extra>>

\* lines 57-62, with the Mutex owned.
TryCheck(t) ==
    /\ pc[t] = "try_check"
    /\ locked = t
    /\ IF count > 0
       THEN /\ count' = count - 1
            /\ ret' = [ret EXCEPT ![t] = "true"]
            /\ held' = [held EXCEPT ![t] = @ + 1]
       ELSE /\ ret' = [ret EXCEPT ![t] = "false"]
            /\ UNCHANGED <<count, held>>
    /\ pc' = [pc EXCEPT ![t] = "idle"]
    /\ locked' = NoThread
    /\ UNCHANGED <<poisoned, op, got, budget, dur, unwinding, initial, guards, extra>>

\* --------------------------------------------------------------- release
\* A thread holds a permit that no live guard of its own accounts for.
HoldsLoose(t) == held[t] > guards[t]

\* Semaphore::release is called (line 66) and line 67 obtains the Mutex. A
\* thread that holds a permit gives it back; one that holds none makes an
\* unbalanced call.
ReleaseCall(t) ==
    /\ pc[t] = "idle"
    /\ IF HoldsLoose(t) THEN TRUE ELSE extra < MaxExtra
    /\ Enter(t, "release", "rel_inc")
    /\ budget' = budget
    /\ dur' = [dur EXCEPT ![t] = 0]

\* usize addition of 1 gives the sum when it fits.
Fits(c) == c + 1 <= MaxValue

\* A release that gives the permit up without adding it to the counter.
ReleaseIncLost(t) ==
    /\ pc[t] = "rel_inc"
    /\ locked = t
    /\ locked' = NoThread
    /\ count' = count
    /\ pc' = [pc EXCEPT ![t] = "rel_notify"]
    /\ IF ViaGuard(t)
       THEN /\ held' = [held EXCEPT ![t] = @ - 1]
            /\ guards' = [guards EXCEPT ![t] = @ - 1]
            /\ extra' = extra
       ELSE /\ held' = [held EXCEPT ![t] = IF HoldsLoose(t) THEN @ - 1 ELSE @]
            /\ extra' = IF HoldsLoose(t) THEN extra ELSE extra + 1
            /\ guards' = guards
    /\ UNCHANGED <<poisoned, op, ret, got, budget, dur, unwinding, initial>>

\* line 67, `+= 1` with the Mutex owned, then the temporary MutexGuard is
\* dropped. When the sum does not fit in usize, a build with overflow checks
\* panics with the Mutex owned, which poisons it, and a build without wraps
\* to 0: `checks` is the build's choice.
ReleaseInc(t) ==
    /\ pc[t] = "rel_inc"
    /\ locked = t
    /\ locked' = NoThread
    /\ \E checks \in BOOLEAN :
         IF ~Fits(count) /\ checks
         THEN /\ poisoned' = TRUE
              /\ pc' = [pc EXCEPT ![t] = "panicked"]
              /\ UNCHANGED <<count, held, guards, extra>>
         ELSE /\ count' = (count + 1) % (MaxValue + 1)
              /\ pc' = [pc EXCEPT ![t] = "rel_notify"]
              /\ IF ViaGuard(t)
                 THEN /\ held' = [held EXCEPT ![t] = @ - 1]
                      /\ guards' = [guards EXCEPT ![t] = @ - 1]
                      /\ extra' = extra
                 ELSE /\ held' = [held EXCEPT ![t] = IF HoldsLoose(t) THEN @ - 1 ELSE @]
                      /\ extra' = IF HoldsLoose(t) THEN extra ELSE extra + 1
                      /\ guards' = guards
              /\ poisoned' = poisoned
    /\ UNCHANGED <<op, ret, got, budget, dur, unwinding, initial>>

\* Whom notify_one may wake: one of the suspended threads, or nobody when
\* none is suspended.
NotifyTargets == IF Waiting = {} THEN {NoThread} ELSE Waiting

\* A release that returns without notifying the Condvar.
ReleaseNoNotify(t) ==
    /\ pc[t] = "rel_notify"
    /\ pc' = [pc EXCEPT ![t] = AfterCall(t, guards[t])]
    /\ ret' = [ret EXCEPT ![t] = "unit"]
    /\ UNCHANGED <<sem, op, got, budget, dur, unwinding, hist>>

\* line 68: self.cvar.notify_one(), after the Mutex was given up; then
\* release returns.
ReleaseNotify(t) ==
    /\ pc[t] = "rel_notify"
    /\ \E w \in NotifyTargets :
          pc' = [(IF w = NoThread THEN pc ELSE Woken(pc, w))
                    EXCEPT ![t] = AfterCall(t, guards[t])]
    /\ ret' = [ret EXCEPT ![t] = "unit"]
    /\ UNCHANGED <<sem, op, got, budget, dur, unwinding, hist>>

\* ------------------------------------------------------------- get_value
\* Semaphore::get_value is called (line 72) and line 73 obtains the Mutex.
GetCall(t) ==
    /\ pc[t] = "idle"
    /\ Enter(t, "get_value", "get_read")
    /\ budget' = budget
    /\ dur' = [dur EXCEPT ![t] = 0]

\* line 73: the counter is copied out and the MutexGuard dropped.
GetRead(t) ==
    /\ pc[t] = "get_read"
    /\ locked = t
    /\ got' = [got EXCEPT ![t] = count]
    /\ ret' = [ret EXCEPT ![t] = "value"]
    /\ pc' = [pc EXCEPT ![t] = "idle"]
    /\ locked' = NoThread
    /\ UNCHANGED <<count, poisoned, op, budget, dur, unwinding, hist>>

\* ------------------------------------------------------- Condvar wake-ups
\* Condvar::wait and wait_timeout may return with no notification.
SpuriousWake(t) ==
    /\ t \in Waiting
    /\ pc' = Woken(pc, t)
    /\ UNCHANGED <<sem, op, ret, got, budget, dur, unwinding, hist>>

\* -------------------------------------------------------- SemaphoreGuard
\* SemaphoreGuard::acquire (lines 79-82): the blocking Semaphore::acquire,
\* then the guard is built. The guard counts as live from the decrement its
\* constructor performed to the increment its drop performs.
GuardAcquireCall(t) ==
    /\ pc[t] = "idle"
    /\ guards[t] < MaxHeld
    /\ Enter(t, "guard_acquire", "acq_check")
    /\ budget' = budget
    /\ dur' = [dur EXCEPT ![t] = 0]

\* A drop that forgets the guard without giving the permit back.
GuardDropNoRelease(t) ==
    /\ pc[t] \in {"idle", "unwind"}
    /\ guards[t] > 0
    /\ guards' = [guards EXCEPT ![t] = @ - 1]
    /\ held' = [held EXCEPT ![t] = @ - 1]
    /\ pc' = [pc EXCEPT ![t] = AfterCall(t, guards[t] - 1)]
    /\ op' = [op EXCEPT ![t] = "guard_drop"]
    /\ ret' = [ret EXCEPT ![t] = "unit"]
    /\ UNCHANGED <<sem, got, budget, dur, unwinding, initial, extra>>

\* Drop for SemaphoreGuard (lines 87-89): a live guard goes out of scope, by
\* the normal end of the scope or while a panic unwinds it, and calls
\* Semaphore::release, whose line 67 obtains the Mutex.
GuardDrop(t) ==
    /\ guards[t] > 0
    /\ Enter(t, "guard_drop", "rel_inc")
    /\ budget' = budget
    /\ dur' = [dur EXCEPT ![t] = 0]

\* The caller's own code panics inside the scope: the stack unwinds and every
\* live guard of the thread is dropped before the thread ends.
ScopePanic(t) ==
    /\ pc[t] = "idle"
    /\ ~unwinding[t]
    /\ unwinding' = [unwinding EXCEPT ![t] = TRUE]
    /\ pc' = [pc EXCEPT ![t] = IF guards[t] > 0 THEN "unwind" ELSE "panicked"]
    /\ UNCHANGED <<sem, op, ret, got, budget, dur, hist>>

\* ------------------------------------------------------ the Semaphore API
Next ==
    \E t \in Callers :
        \/ AcquireCall(t)
        \/ AcquireCheck(t)
        \/ AcquireRelock(t)
        \/ AcquireRecheck(t)
        \/ \E d \in Durations : TimeoutCall(t, d)
        \/ TimeoutEnter(t)
        \/ TimeoutTick(t)
        \/ TimeoutExpire(t)
        \/ TimeoutRelock(t)
        \/ TimeoutCheck(t)
        \/ TryCall(t)
        \/ TryCheck(t)
        \/ ReleaseCall(t)
        \/ ReleaseInc(t)
        \/ ReleaseNotify(t)
        \/ SpuriousWake(t)

Spec == Init /\ [][Next]_vars

\* ------------------------------------- callers that use only SemaphoreGuard
NextGuard ==
    \E t \in Callers :
        \/ GuardAcquireCall(t)
        \/ AcquireCheck(t)
        \/ AcquireRelock(t)
        \/ AcquireRecheck(t)
        \/ GuardDrop(t)
        \/ ReleaseInc(t)
        \/ ReleaseNotify(t)
        \/ SpuriousWake(t)
        \/ ScopePanic(t)

SpecGuard == Init /\ [][NextGuard]_vars

\* --------------------------------------- callers that also read the counter
NextObserve ==
    \/ Next
    \/ \E t \in Callers : GetCall(t) \/ GetRead(t)

SpecObserve == Init /\ [][NextObserve]_vars

\* ------------------- callers that read the counter and never use a window
NextUntimed ==
    \E t \in Callers :
        \/ AcquireCall(t)
        \/ AcquireCheck(t)
        \/ AcquireRelock(t)
        \/ AcquireRecheck(t)
        \/ TryCall(t)
        \/ TryCheck(t)
        \/ ReleaseCall(t)
        \/ ReleaseInc(t)
        \/ ReleaseNotify(t)
        \/ GetCall(t)
        \/ GetRead(t)
        \/ SpuriousWake(t)

SpecUntimed == Init /\ [][NextUntimed]_vars

\* ----------------------- every thread a caller: three share the wait set
NextShared ==
    \E t \in Threads :
        \/ AcquireCall(t)
        \/ AcquireCheck(t)
        \/ AcquireRelock(t)
        \/ AcquireRecheck(t)
        \/ \E d \in Durations : TimeoutCall(t, d)
        \/ TimeoutEnter(t)
        \/ TimeoutTick(t)
        \/ TimeoutExpire(t)
        \/ TimeoutRelock(t)
        \/ TimeoutCheck(t)
        \/ TryCall(t)
        \/ TryCheck(t)
        \/ ReleaseCall(t)
        \/ ReleaseInc(t)
        \/ ReleaseNotify(t)
        \/ SpuriousWake(t)

SpecShared == Init /\ [][NextShared]_vars

\* ------------------------------------------------------------ scheduling
\* The steps by which a woken thread t obtains the Mutex again.
LockStep(t) == AcquireRelock(t) \/ TimeoutRelock(t)

\* The steps thread t takes on its own once it is scheduled: the bodies of
\* the critical sections, notify_one, and the clock of its wait_timeout.
\* Entering a call and being woken spuriously are not among them.
OwnStep(t) ==
    \/ AcquireCheck(t) \/ AcquireRecheck(t)
    \/ TimeoutEnter(t) \/ TimeoutTick(t) \/ TimeoutExpire(t) \/ TimeoutCheck(t)
    \/ TryCheck(t) \/ ReleaseInc(t) \/ ReleaseNotify(t) \/ GetRead(t)

\* A preemptive scheduler runs every runnable thread again, and a woken
\* thread that re-locks the Mutex gets it when it is free again and again.
Fairness == \A t \in Threads : WF_vars(OwnStep(t)) /\ SF_vars(LockStep(t))

SpecLive == Init /\ [][Next]_vars /\ Fairness

\* --------------------- one waiter, the permits drained, and one release()
Waiter == CHOOSE t \in Callers : TRUE

\* Some thread has called release().
Released == \E t \in Threads : op[t] = "release"

\* The waiter calls acquire() once.
HandoffAcquireCall(t) ==
    /\ t = Waiter
    /\ op[t] = "none"
    /\ AcquireCall(t)

\* Before the release, the other threads may take permits with try_acquire.
HandoffTryCall(t) ==
    /\ t # Waiter
    /\ ~Released
    /\ TryCall(t)

\* Once the waiter is suspended on a counter of 0 and nobody else is inside
\* a call, one other thread calls release(); that happens once.
HandoffReleaseCall(t) ==
    /\ t # Waiter
    /\ ~Released
    /\ pc[Waiter] = "acq_wait"
    /\ count = 0
    /\ \A u \in Threads \ {Waiter} : pc[u] = "idle"
    /\ ReleaseCall(t)

\* The other threads may read the counter at any time; that takes no permit.
HandoffGetCall(t) ==
    /\ t # Waiter
    /\ op[t] # "release"
    /\ GetCall(t)

NextHandoff ==
    \E t \in Callers :
        \/ HandoffAcquireCall(t)
        \/ AcquireCheck(t)
        \/ AcquireRelock(t)
        \/ AcquireRecheck(t)
        \/ HandoffTryCall(t)
        \/ TryCheck(t)
        \/ HandoffGetCall(t)
        \/ GetRead(t)
        \/ HandoffReleaseCall(t)
        \/ ReleaseInc(t)
        \/ ReleaseNotify(t)
        \/ SpuriousWake(t)

SpecHandoff == Init /\ [][NextHandoff]_vars /\ Fairness

\* ===================================================================
\* Properties
\* ===================================================================
\* Thread t's call ends in this step by returning to its caller.
Returns(t) == pc[t] \notin {"idle", "unwind", "panicked"}
              /\ pc'[t] \in {"idle", "unwind"}

\* No release() has been made by a thread that held no permit.
Balanced == extra = 0

\* C1: under balanced usage the number of permits held by threads never
\* exceeds the capacity the semaphore was constructed with.
C1_HoldersWithinCapacity == Balanced => Holders <= initial

\* C1 witness: a capacity of at least 2 is exhausted by the holders and a
\* further thread is kept suspended in acquire().
C1_Witness ==
    /\ Balanced /\ initial >= 2 /\ Holders = initial /\ count = 0
    /\ \E t \in Threads : pc[t] = "acq_wait"

\* C2: the counter is never negative, and under balanced usage it never
\* exceeds the initial capacity.
C2_CounterRange == count >= 0 /\ (Balanced => count <= initial)

\* C2 witness: balanced usage has brought a capacity of at least 2 down to 0
\* and a try_acquire has been turned away there.
C2_Witness ==
    /\ Balanced /\ initial >= 2 /\ count = 0
    /\ \E t \in Threads : pc[t] = "idle" /\ op[t] = "try_acquire" /\ ret[t] = "false"

\* C3: acquire() returns only by a step that owns the Mutex and takes the
\* counter from a strictly positive value to one less; a woken thread that
\* re-checks and finds 0 suspends again and leaves the counter alone.
C3_AcquireDecrementsOrWaits ==
    [][\A t \in Threads :
          /\ (pc[t] \in AcquirePcs /\ Returns(t))
                => (locked = t /\ count > 0 /\ count' = count - 1)
          /\ (pc[t] = "acq_recheck" /\ count = 0 /\ pc'[t] # pc[t])
                => (pc'[t] = "acq_wait" /\ count' = count)]_vars

\* C3 witness: a thread woken from cvar.wait owns the Mutex again and is
\* about to re-check a counter that is 0.
C3_Witness == \E t \in Threads : pc[t] = "acq_recheck" /\ locked = t /\ count = 0

\* C4: try_acquire() returns true exactly when the counter is positive while
\* it owns the Mutex; then the counter goes from k to k - 1; when it returns
\* false the counter was 0 and stays 0.
C4_TryAcquireContract ==
    [][\A t \in Threads :
          (pc[t] = "try_check" /\ Returns(t)) =>
              /\ locked = t
              /\ (ret'[t] = "true") <=> (count > 0)
              /\ ret'[t] \in {"true", "false"}
              /\ count' = IF count > 0 THEN count - 1 ELSE 0]_vars

\* C4 witness: capacity 2, both permits held, and a try_acquire has just
\* returned false.
C4_Witness ==
    /\ initial = 2 /\ Holders = 2 /\ count = 0
    /\ \E t \in Threads : pc[t] = "idle" /\ op[t] = "try_acquire" /\ ret[t] = "false"

\* C5: once the waiter is suspended in acquire() on a counter of 0 and the
\* one release() has been called, the waiter eventually returns from
\* acquire(), by the step that takes the counter from 1 to 0, and leaves the
\* counter at 0.
C5_WaiterProceeds ==
    /\ (pc[Waiter] = "acq_wait" /\ count = 0 /\ Released)
          ~> (pc[Waiter] = "idle" /\ ret[Waiter] = "unit" /\ held[Waiter] = 1
              /\ count = 0)
    /\ [][(Released /\ pc[Waiter] \in AcquirePcs /\ Returns(Waiter))
             => (count = 1 /\ count' = 0)]_vars

\* C5 witness: the waiter was suspended when release() was called and has
\* returned from acquire() holding the permit.
C5_Witness ==
    /\ Released /\ pc[Waiter] = "idle" /\ op[Waiter] = "acquire"
    /\ ret[Waiter] = "unit" /\ held[Waiter] = 1 /\ count = 0

\* C6 (as claimed): the increment step of every release() leaves the counter
\* exactly one greater and goes on to notify_one, and the notify_one step
\* takes exactly one thread out of the wait set when it is not empty and
\* none when it is.
C6_ReleaseAddsOneWakesOne ==
    [][\A t \in Threads :
          /\ (pc[t] = "rel_inc" /\ pc'[t] # pc[t])
                => (count' = count + 1 /\ pc'[t] = "rel_notify")
          /\ (pc[t] = "rel_notify" /\ pc'[t] # pc[t])
                => /\ Waiting' \subseteq Waiting
                   /\ Cardinality(Waiting \ Waiting')
                         = (IF Waiting = {} THEN 0 ELSE 1)]_vars

\* The steps of acquire_timeout that need no other thread once the Mutex is
\* free and the window is over.
TimeoutOwnStep(t) ==
    \/ TimeoutEnter(t) \/ TimeoutExpire(t)
    \/ TimeoutRelock(t) \/ TimeoutCheck(t)

C7_TimeoutFrame ==
    [][\A t \in Threads :
          (pc[t] \in TimeoutPcs /\ Returns(t)) =>
              /\ ret'[t] \in {"true", "false"}
              /\ ret'[t] = "false" => count' = count
              /\ ret'[t] = "true" => (locked = t /\ count > 0 /\ count' = count - 1)]_vars

\* C7 witness: an acquire_timeout has returned false with the counter at 0
\* while all permits of a non-empty semaphore are held.
C7_Witness ==
    /\ count = 0 /\ initial >= 1
    /\ \E t \in Threads : pc[t] = "idle" /\ op[t] = "acquire_timeout" /\ ret[t] = "false"

\* C8 (as claimed): acquire_timeout returns false only when its window has
\* elapsed.
C8_FalseOnlyAfterWindow ==
    [][\A t \in Threads :
          (pc[t] \in TimeoutPcs /\ Returns(t) /\ ret'[t] = "false")
              => budget[t] = 0]_vars

\* C10: a guard comes to life only in the step in which the blocking acquire
\* of its constructor takes a permit, and ends only in the step in which the
\* release of its drop gives one back; so with guards as the only callers
\* the counter plus the live guards is the initial capacity.
C10_GuardsConservePermits ==
    /\ [](count + LiveGuards = initial)
    /\ [][\A t \in Threads :
            /\ guards'[t] > guards[t] =>
                 (pc[t] \in {"acq_check", "acq_recheck"} /\ locked = t
                  /\ guards'[t] = guards[t] + 1 /\ count > 0 /\ count' = count - 1)
            /\ guards'[t] < guards[t] =>
                 (pc[t] = "rel_inc" /\ locked = t
                  /\ guards'[t] = guards[t] - 1 /\ count' = count + 1)]_vars

\* C10 witness: capacity 1; a guard was dropped while a panic unwound its
\* scope, and the counter is 1 again.
C10_Witness ==
    /\ initial = 1 /\ count = 1
    /\ \E t \in Threads :
          unwinding[t] /\ pc[t] = "panicked" /\ op[t] = "guard_drop" /\ ret[t] = "unit"

\* Nobody is inside a call and nobody holds a permit: every acquire that was
\* made has completed and has been matched by a completed release.
AllReturned == Holders = 0 /\ \A t \in Threads : pc[t] = "idle"

\* C11: under balanced usage, once every acquire has completed and has been
\* matched by a completed release(), in whatever interleaving over the
\* threads, the counter is exactly the capacity the semaphore was constructed
\* with.
C11_RoundTrip == (Balanced /\ AllReturned) => count = initial

\* C11 witness: capacity 2; both callers took a permit, both have returned
\* from the release() that gave it back, and the counter is 2 again.
C11_Witness ==
    /\ Balanced /\ AllReturned /\ initial = 2 /\ count = 2
    /\ \A t \in Callers : op[t] = "release" /\ ret[t] = "unit"

\* C12 (as claimed): a release() made while no permit is outstanding goes on
\* normally to notify_one and leaves the counter one greater, above the
\* capacity the semaphore was constructed with.
C12_UnbalancedReleaseInflates ==
    [][\A t \in Threads :
          (pc[t] = "rel_inc" /\ op[t] = "release" /\ Holders = 0
           /\ pc'[t] # pc[t])
              => (pc'[t] = "rel_notify" /\ count' = count + 1
                  /\ count' > initial)]_vars

\* The positions of try_acquire, release and get_value at which the thread
\* owns the Mutex.
OwnerPcs == {"try_check", "rel_inc", "get_read"}

\* The step thread t takes next inside try_acquire, release or get_value.
DirectStep(t) ==
    \/ TryCheck(t) \/ ReleaseInc(t) \/ ReleaseNotify(t) \/ GetRead(t)

\* C13: try_acquire, release and get_value are never in the wait set; at
\* every position inside them the thread has a step to take whatever the
\* counter, the wait set and the other threads are; that step takes
\* try_acquire and get_value back to the caller and release on to notify_one
\* (or out of the call by the panic of line 67) and from notify_one back to
\* the caller; and get_value hands back the counter and changes neither the
\* counter nor the wait set.
C13_DirectOperations ==
    /\ [](\A t \in Threads :
            /\ t \in Waiting => op[t] \in {"acquire", "acquire_timeout"}
            /\ pc[t] \in OwnerPcs => locked = t
            /\ pc[t] \in OwnerPcs \cup {"rel_notify"} => ENABLED DirectStep(t))
    /\ [][\A t \in Threads :
            /\ (pc[t] \in {"try_check", "get_read", "rel_notify"} /\ pc'[t] # pc[t])
                  => Returns(t)
            /\ (pc[t] = "rel_inc" /\ pc'[t] # pc[t])
                  => pc'[t] \in {"rel_notify", "panicked"}
            /\ (pc[t] = "get_read" /\ pc'[t] # pc[t])
                  => /\ ret'[t] = "value" /\ got'[t] = count
                     /\ count' = count /\ Waiting' = Waiting]_vars

\* C13 witness: with the counter at 0 and a thread suspended in acquire(), a
\* get_value has returned 0 and a try_acquire is about to test the counter.
C13_Witness ==
    /\ count = 0 /\ initial >= 1
    /\ \E w, t \in Threads :
          /\ pc[w] = "acq_wait"
          /\ pc[t] = "idle" /\ op[t] = "get_value" /\ ret[t] = "value" /\ got[t] = 0

\* The positions at which a thread's next step locks the Mutex: entering a
\* call, and coming back from cvar.wait or cvar.wait_timeout.
LockingPcs == {"idle", "acq_woken", "to_woken"}

\* C14 (as claimed): a thread whose step finds the Mutex poisoned ends by a
\* panic in that step; in particular it does not return false from
\* acquire_timeout.
C14_PoisonIsFatal ==
    [][\A t \in Threads :
          (poisoned /\ pc[t] \in LockingPcs /\ pc'[t] # pc[t])
              => pc'[t] = "panicked"]_vars

\* C15: on a semaphore of capacity 1, a thread that holds the only permit and
\* is inside acquire() finds the counter at 0, suspends when it tests it, and
\* stays inside acquire() with the counter at 0 for as long as no release()
\* has added to the counter.
C15_NotReentrant ==
    [][\A t \in Threads :
          (initial = 1 /\ held[t] = 1 /\ pc[t] \in AcquirePcs /\ extra' = 0)
              => /\ count = 0 /\ count' = 0
                 /\ pc'[t] \in AcquirePcs
                 /\ (pc[t] \in {"acq_check", "acq_recheck"} /\ pc'[t] # pc[t])
                       => pc'[t] = "acq_wait"]_vars

\* C15 witness: capacity 1; the thread that holds the permit called acquire()
\* again and is suspended with the counter at 0, while no other thread has
\* made any call.
C15_Witness ==
    \E t \in Threads :
        /\ initial = 1 /\ count = 0 /\ held[t] = 1
        /\ op[t] = "acquire" /\ pc[t] = "acq_wait"
        /\ \A u \in Threads \ {t} : op[u] = "none"

\* C16 (as claimed): a thread enters the wait set only in a step that owns
\* the Mutex and finds the counter at 0; with a positive counter
\* acquire_timeout does not enter it.
C16_WaitsOnlyOnZero ==
    [][\A t \in Threads :
          (t \notin Waiting /\ t \in Waiting') => (locked = t /\ count = 0)]_vars

\* The abstract semaphore: one atomic step per successful acquire variant,
\* enabled only on a positive counter, and one atomic step per release.
AbstractAcquire == count > 0 /\ count' = count - 1
AbstractRelease == count' = count + 1

\* The positions at which acquire, acquire_timeout and try_acquire test the
\* counter.
TestPcs == {"acq_check", "acq_recheck", "to_check", "try_check"}

\* C17 (as claimed): every step that changes the counter is taken by the
\* thread that owns the Mutex and is one step of the abstract semaphore, an
\* acquire step exactly when an acquire variant returns success in it and a
\* release step exactly when a release() passes line 67 in it; every other
\* step leaves the counter alone, and an acquire variant returns false only
\* on a counter of 0.
C17_RefinesAtomicCounter ==
    [][/\ count' # count =>
            \E t \in Threads :
                /\ locked = t
                /\ \/ pc[t] \in TestPcs /\ AbstractAcquire
                   \/ pc[t] = "rel_inc" /\ AbstractRelease
       /\ \A t \in Threads :
            /\ (pc[t] \in TestPcs /\ Returns(t) /\ ret'[t] \in {"unit", "true"})
                  => (locked = t /\ AbstractAcquire)
            /\ (Returns(t) /\ ret'[t] = "false") => (count = 0 /\ count' = 0)
            /\ (pc[t] = "rel_inc" /\ pc'[t] = "rel_notify")
                  => (locked = t /\ AbstractRelease)]_vars

\* Nobody owns the Mutex or is about to lock it again after a wake, and no
\* release() stands between its increment and its notify_one: every thread
\* is outside a call, ended, or suspended on the Condvar.
Quiescent ==
    /\ locked = NoThread
    /\ \A t \in Threads : pc[t] \in {"idle", "panicked", "acq_wait", "to_wait"}

\* C18: in a quiescent state with a positive counter no thread is suspended
\* in acquire().
C18_NoLostWakeup ==
    (Quiescent /\ count > 0) => \A t \in Threads : pc[t] # "acq_wait"

\* C18 witness: the counter is positive, a release() has passed line 67 and
\* is about to issue notify_one, and the wait set holds a thread suspended in
\* acquire() together with a thread suspended in acquire_timeout, so that
\* notify_one may wake either.
C18_Witness ==
    /\ count > 0
    /\ \E r, a, w \in Threads :
          /\ pc[r] = "rel_notify"
          /\ pc[a] = "acq_wait" /\ op[a] = "acquire"
          /\ pc[w] = "to_wait" /\ budget[w] > 0

\* The decrements performed so far minus the increments performed so far:
\* every decrement adds a held permit, and every increment gives a held
\* permit back or is counted as an unbalanced release.
NetTaken == Holders - extra

\* C19 (as claimed): in every reachable state the counter is the initial
\* capacity minus the decrements performed plus the increments performed.
C19_PermitConservation == count = initial - NetTaken

\* C20 (as claimed): the step of release() that executes line 67 never ends
\* the call by a panic and always leaves the counter exactly one greater,
\* also when the counter is the largest value of usize.
C20_ReleaseNeverFails ==
    [][\A t \in Threads :
          (pc[t] = "rel_inc" /\ pc'[t] # pc[t])
              => (pc'[t] = "rel_notify" /\ ~poisoned' /\ count' = count + 1)]_vars
====
